---- MODULE Spec2Model ----
(***************************************************************************)
(* A model of lale/lib/aif360/reweighing.py: the ReweighingImpl adapter.   *)
(*                                                                         *)
(* Two adapter objects, A and B, are constructed over a small heap of      *)
(* estimator objects (so that both may hold the same estimator object).    *)
(* fit is followed statement by statement; every call it delegates is      *)
(* appended to a log with its receiver, its arguments and its result, and  *)
(* may raise instead of returning.  The delegated routines are outside     *)
(* this file: their results are uninterpreted terms built from their       *)
(* arguments, and an estimator's fit either trains its receiver in place   *)
(* and returns it, or returns a new trained object.                        *)
(***************************************************************************)
EXTENDS Naturals, Sequences, FiniteSets, TLC

VARIABLES
    fields,     \* adapter -> its instance fields (estimator is a heap reference)
    ctor,       \* adapter -> the arguments its constructor was given
    heap,       \* estimator objects: kind, training generation, pipeline parts
    call,       \* the call in progress (or the last one): arguments and position
    locals,     \* the local variables of fit
    log,        \* the delegated calls made by the call, in order
    outcome,    \* how the last finished call ended
    lastFit,    \* adapter -> what its most recent completed fit produced (0: none)
    fitsLeft    \* how many more fit calls the model explores

vars == <<fields, ctor, heap, call, locals, log, outcome, lastFit, fitsLeft>>

\* ------------------------------------------------------------------ bounds

MaxFits == 2      \* fit calls explored in one behaviour
MaxLabels == 2    \* longest label vector y

\* ------------------------------------------------------------------ values

Adapters == {"A", "B"}

LabelValues == {0, 1, 2}

ObjIds == 1..(4 + 3 * MaxFits)

NullTable == [name |-> "none", ncols |-> 0, enc |-> FALSE, tr |-> 0]

RawTable(n, c) == [name |-> n, ncols |-> c, enc |-> FALSE, tr |-> 0]

Xs == {RawTable("X1", 2), RawTable("X2", 3)}

NullY == [kind |-> "none", labels |-> <<>>]

LabelSeqs == UNION {[1..n -> LabelValues] : n \in 1..MaxLabels}

NullData ==
    [X |-> NullTable, y |-> NullY, favorable_label |-> 0, unfavorable_label |-> 0,
     protected_attribute_names |-> <<>>]

NullRw ==
    [unprivileged_groups |-> <<>>, privileged_groups |-> <<>>,
     fitted |-> FALSE, on |-> NullData]

NoWeight == [present |-> FALSE, data |-> NullData, rw |-> NullRw]

NullReweighted == [data |-> NullData, rw |-> NullRw, instance_weights |-> NoWeight]

Free == [kind |-> "free", st |-> 0, prefix |-> 0, last |-> 0]

NullLocals ==
    [encoded_X |-> NullTable, encoded_y |-> NullY, pans |-> <<>>,
     encoded_data |-> NullData, unpriv_groups |-> <<>>, priv_groups |-> <<>>,
     reweighing_trainable |-> NullRw, reweighing_trained |-> NullRw,
     reweighted_data |-> NullReweighted, sample_weight |-> NoWeight,
     trainable_prefix |-> 0, trainable_suffix |-> 0, trained_prefix |-> 0,
     transformed_X |-> NullTable, trained_suffix |-> 0]

NoOutcome == [status |-> "none"]

\* ------------------------------------------------ constructor (lines 31-36)

ReweighingImpl(estimator, favorable_labels, protected_attributes) ==
    [estimator |-> estimator,
     favorable_labels |-> favorable_labels,
     protected_attributes |-> protected_attributes]

\* The estimator objects that exist before any fit: an individual operator (1),
\* a pipeline (2) made of a prefix (3) and a last stage (4).
InitHeap ==
    [o \in ObjIds |->
        CASE o = 1 -> [kind |-> "op", st |-> 0, prefix |-> 0, last |-> 0]
          [] o = 2 -> [kind |-> "pipeline", st |-> 0, prefix |-> 3, last |-> 4]
          [] o = 3 -> [kind |-> "op", st |-> 0, prefix |-> 0, last |-> 0]
          [] o = 4 -> [kind |-> "op", st |-> 0, prefix |-> 0, last |-> 0]
          [] OTHER -> Free]

PA(f) == [feature |-> f, privileged_groups |-> 1]

PANoFeature == [privileged_groups |-> 1]

\* ------------------------------------------- helpers outside this file

\* util._group_flag: 1 when the value is one of the favorable labels, else 0.
_group_flag(value, groups) ==
    IF \E i \in 1..Len(groups) : groups[i] = value THEN 1 ELSE 0

\* util._ndarray_to_series: the same labels as a series (named by `name`).
_ndarray_to_series(data, name) == [kind |-> "series", labels |-> data.labels]

\* ProtectedAttributesEncoder.transform: the encoded copy of a table.
EncoderTransform(X) == [X EXCEPT !.enc = TRUE]

\* Reweighing.fit and Reweighing.transform of the external toolkit.
ReweighingFit(rw, data) == [rw EXCEPT !.fitted = TRUE, !.on = data]

ReweighingTransform(rw, data) ==
    [data |-> data, rw |-> rw,
     instance_weights |-> [present |-> TRUE, data |-> data, rw |-> rw]]

\* The smallest unused object id.
Alloc(h) ==
    CHOOSE o \in ObjIds :
        /\ h[o].kind = "free"
        /\ \A p \in ObjIds : p < o => h[p].kind # "free"

\* An estimator's fit: it trains its receiver in place and returns it, or it
\* leaves the receiver alone and returns a new trained object.
FitModes == {"inplace", "fresh"}

ExtFit(h, r, mode) ==
    IF mode = "inplace"
    THEN [heap |-> [h EXCEPT ![r].st = @ + 1], result |-> r]
    ELSE LET n == Alloc(h)
         IN  [heap |-> [h EXCEPT ![n] = [h[r] EXCEPT !.st = @ + 1]], result |-> n]

\* A trained pipeline prefix applied to a table.
ExtTransform(p, X) == [X EXCEPT !.tr = p]

\* What an estimator object answers depends on its training state only.
View(h, o) ==
    IF h[o].kind = "pipeline"
    THEN [kind |-> "pipeline", st |-> h[o].st,
          prefix_st |-> h[h[o].prefix].st, last_st |-> h[h[o].last].st]
    ELSE [kind |-> h[o].kind, st |-> h[o].st, prefix_st |-> 0, last_st |-> 0]

ExtPredict(h, o, X) == [view |-> View(h, o), X |-> X]

\* The estimator objects an estimator is made of.
Parts(h, o) ==
    IF h[o].kind = "pipeline" THEN {o, h[o].prefix, h[o].last} ELSE {o}

ExternalError(fn) == [origin |-> "external", at |-> fn]

AdapterError(type) == [origin |-> "adapter", at |-> type]

Entry(fn, recv, args, result) ==
    [fn |-> fn, recv |-> recv, args |-> args, result |-> result]

\* --------------------------------------------- expressions of fit (38-72)

\* line 47: encoded_y.apply(lambda v: _group_flag(v, self.favorable_labels))
BinarizedLabels(labels, favorable_labels) ==
    [i \in 1..Len(labels) |-> _group_flag(labels[i], favorable_labels)]

\* line 48: pans = [pa["feature"] for pa in self.protected_attributes]
Pans(protected_attributes) ==
    [i \in 1..Len(protected_attributes) |-> protected_attributes[i].feature]

\* the dict comprehension {pa["feature"]: v for pa in self.protected_attributes}
GroupDict(protected_attributes, v) ==
    [f \in {protected_attributes[i].feature : i \in 1..Len(protected_attributes)} |-> v]

\* line 53
UnprivGroups(protected_attributes) == <<GroupDict(protected_attributes, 0)>>

\* (the privileged group written with the unprivileged value)
PrivGroupsZero(protected_attributes) == <<GroupDict(protected_attributes, 0)>>

\* line 54
PrivGroups(protected_attributes) == <<GroupDict(protected_attributes, 1)>>

\* lines 49-52: the converter's configuration and its result
PandasToDataset(pans, encoded_X, encoded_y) ==
    [X |-> encoded_X, y |-> encoded_y, favorable_label |-> 1,
     unfavorable_label |-> 0, protected_attribute_names |-> pans]

\* lines 55-57
MakeReweighing(unpriv_groups, priv_groups) ==
    [unprivileged_groups |-> unpriv_groups, privileged_groups |-> priv_groups,
     fitted |-> FALSE, on |-> NullData]

\* line 61: isinstance(self.estimator, lale.operators.TrainablePipeline)
IsTrainablePipeline(h, o) == h[o].kind = "pipeline"

\* (the estimator fit on the encoded table)
EstimatorFitArgsEncodedX(c, l) ==
    [X |-> l.encoded_X, y |-> c.y, sample_weight |-> l.sample_weight]

\* (the estimator fit on the binarized labels)
EstimatorFitArgsBinarizedY(c, l) ==
    [X |-> c.X, y |-> l.encoded_y, sample_weight |-> l.sample_weight]

\* line 71: the arguments of the estimator's fit
EstimatorFitArgs(c, l) ==
    [X |-> c.X, y |-> c.y, sample_weight |-> l.sample_weight]

\* (the sample weights passed to the prefix as well)
PrefixFitArgsWeighted(c, l) ==
    [X |-> c.X, y |-> c.y, sample_weight |-> l.sample_weight]

\* line 64: the arguments of the pipeline prefix's fit
PrefixFitArgs(c, l) ==
    [X |-> c.X, y |-> c.y, sample_weight |-> NoWeight]

\* lines 66-68: the arguments of the last stage's fit
SuffixFitArgs(c, l) ==
    [X |-> l.transformed_X, y |-> c.y, sample_weight |-> l.sample_weight]

\* (the assignment made on the class, so on every adapter)
SetEstimatorOnClass(f, self, v) == [a \in DOMAIN f |-> [f[a] EXCEPT !.estimator = v]]

\* (the assignment rebuilding the object, its other fields lost)
SetEstimatorRebuild(f, self, v) ==
    [f EXCEPT ![self] = [estimator |-> v, favorable_labels |-> <<>>,
                         protected_attributes |-> <<>>]]

\* lines 69 and 71: self.estimator = ...
SetEstimator(f, self, v) == [f EXCEPT ![self].estimator = v]

\* (the estimator fit moved before the reading of the weights)
NextPcFitBeforeWeights(pc, isPipeline) ==
    CASE pc = "encode" -> "binarize"
      [] pc = "binarize" -> "convert"
      [] pc = "convert" -> "make_rw"
      [] pc = "make_rw" -> "rw_fit"
      [] pc = "rw_fit" -> "rw_transform"
      [] pc = "rw_transform" -> IF isPipeline THEN "split" ELSE "est_fit"
      [] pc = "split" -> "prefix_fit"
      [] pc = "prefix_fit" -> "prefix_transform"
      [] pc = "prefix_transform" -> "suffix_fit"
      [] pc = "suffix_fit" -> "compose"
      [] pc = "compose" -> "weights"
      [] pc = "est_fit" -> "weights"
      [] pc = "weights" -> "return"
      [] OTHER -> "done"

\* (the estimator fit and the assignment of self.estimator made first)
NextPcAssignFirst(pc, isPipeline) ==
    CASE pc = "encode" -> IF isPipeline THEN "split" ELSE "est_fit"
      [] pc = "split" -> "prefix_fit"
      [] pc = "prefix_fit" -> "prefix_transform"
      [] pc = "prefix_transform" -> "suffix_fit"
      [] pc = "suffix_fit" -> "compose"
      [] pc = "compose" -> "binarize"
      [] pc = "est_fit" -> "binarize"
      [] pc = "binarize" -> "convert"
      [] pc = "convert" -> "make_rw"
      [] pc = "make_rw" -> "rw_fit"
      [] pc = "rw_fit" -> "rw_transform"
      [] pc = "rw_transform" -> "weights"
      [] pc = "weights" -> "return"
      [] OTHER -> "done"

\* The order of the statements of fit.
NextPc(pc, isPipeline) ==
    CASE pc = "encode" -> "binarize"
      [] pc = "binarize" -> "convert"
      [] pc = "convert" -> "make_rw"
      [] pc = "make_rw" -> "rw_fit"
      [] pc = "rw_fit" -> "rw_transform"
      [] pc = "rw_transform" -> "weights"
      [] pc = "weights" -> IF isPipeline THEN "split" ELSE "est_fit"
      [] pc = "split" -> "prefix_fit"
      [] pc = "prefix_fit" -> "prefix_transform"
      [] pc = "prefix_transform" -> "suffix_fit"
      [] pc = "suffix_fit" -> "compose"
      [] pc = "compose" -> "return"
      [] pc = "est_fit" -> "return"
      [] OTHER -> "done"

\* ------------------------------------------------------------ the state

Self == call.self

Me == fields[call.self]

Idle == call.pc \in {"idle", "done"}

ParamSets ==
    {<<(<<1>>), (<<PA("f1"), PA("f2")>>)>>,
     <<(<<1, 2>>), (<<PA("f1"), PA("f1")>>)>>,
     <<(<<2>>), (<<PANoFeature>>)>>}

\* The state after both adapters are constructed: A on estimator ea with the
\* parameters pa, B on estimator eb.
InitWith(EAs, EBs, Params, fits) ==
    /\ \E ea \in EAs, eb \in EBs, pa \in Params :
          /\ ctor = [a \in Adapters |->
                        IF a = "A"
                        THEN [estimator |-> ea, favorable_labels |-> pa[1],
                              protected_attributes |-> pa[2]]
                        ELSE [estimator |-> eb, favorable_labels |-> <<0>>,
                              protected_attributes |-> <<PA("f2")>>]]
          /\ fields = [a \in Adapters |->
                        ReweighingImpl(ctor[a].estimator, ctor[a].favorable_labels,
                                       ctor[a].protected_attributes)]
    /\ heap = InitHeap
    /\ call = [fn |-> "none", self |-> "A", X |-> NullTable, y |-> NullY,
               pc |-> "idle", pre |-> fields, preheap |-> heap]
    /\ locals = NullLocals
    /\ log = <<>>
    /\ outcome = NoOutcome
    /\ lastFit = [a \in Adapters |-> 0]
    /\ fitsLeft = fits

\* Sequences of calls: A is built on the individual operator or on the
\* pipeline; B on the same object, on another one, or on the pipeline's last
\* stage.
Init == InitWith({1, 2}, {1, 2, 4}, {<<(<<1>>), (<<PA("f1"), PA("f2")>>)>>}, MaxFits)

\* One fit over every parameter set and every label vector.
InitData == InitWith({1, 2}, {4}, ParamSets, 1)

\* An error leaves the call: nothing in fit or predict catches it.
Throw(err) ==
    /\ outcome' = [status |-> "raised", fn |-> call.fn, self |-> Self, error |-> err]
    /\ call' = [call EXCEPT !.pc = "done"]
    /\ UNCHANGED <<locals, log>>

Advance(pc) ==
    /\ call' = [call EXCEPT
                  !.pc = NextPc(pc, IsTrainablePipeline(heap, Me.estimator))]
    /\ UNCHANGED outcome

\* ------------------------------------------------------- fit (lines 38-72)

FitCall(a, X, y) ==
    /\ Idle
    /\ fitsLeft > 0
    /\ fitsLeft' = fitsLeft - 1
    /\ call' = [fn |-> "fit", self |-> a, X |-> X, y |-> y, pc |-> "encode",
                pre |-> fields, preheap |-> heap]
    /\ locals' = NullLocals
    /\ log' = <<>>
    /\ outcome' = NoOutcome
    /\ UNCHANGED <<fields, ctor, heap, lastFit>>

\* lines 39-42
Encode ==
    /\ call.pc = "encode"
    /\ \/ Throw(ExternalError("ProtectedAttributesEncoder.transform"))
       \/ /\ locals' = [locals EXCEPT !.encoded_X = EncoderTransform(call.X)]
          /\ log' = Append(log,
                Entry("ProtectedAttributesEncoder.transform", 0,
                      [protected_attributes |-> Me.protected_attributes, X |-> call.X],
                      EncoderTransform(call.X)))
          /\ Advance("encode")
    /\ UNCHANGED <<fields, ctor, heap, lastFit, fitsLeft>>

\* lines 43-47
Binarize ==
    /\ call.pc = "binarize"
    /\ LET isnd == call.y.kind = "ndarray"
           series == IF isnd THEN _ndarray_to_series(call.y, call.X.ncols) ELSE call.y
           flags == [kind |-> "series",
                     labels |-> BinarizedLabels(series.labels, Me.favorable_labels)]
           conv == IF isnd
                   THEN <<Entry("_ndarray_to_series", 0,
                                [y |-> call.y, name |-> call.X.ncols], series)>>
                   ELSE <<>>
       IN  \/ isnd /\ Throw(ExternalError("_ndarray_to_series"))
           \/ series.kind # "series" /\ Throw(AdapterError("AttributeError"))
           \/ series.kind = "series" /\ Throw(ExternalError("Series.apply"))
           \/ /\ series.kind = "series"
              /\ locals' = [locals EXCEPT !.encoded_y = flags]
              /\ log' = log \o conv \o
                    <<Entry("Series.apply", 0,
                            [y |-> series, favorable_labels |-> Me.favorable_labels],
                            flags)>>
              /\ Advance("binarize")
    /\ UNCHANGED <<fields, ctor, heap, lastFit, fitsLeft>>

\* lines 48-52
Convert ==
    /\ call.pc = "convert"
    /\ LET pas == Me.protected_attributes
           keyed == \A i \in 1..Len(pas) : "feature" \in DOMAIN pas[i]
       IN  \/ ~keyed /\ Throw(AdapterError("KeyError"))
           \/ keyed /\ Throw(ExternalError("_PandasToDatasetConverter"))
           \/ /\ keyed
              /\ LET pans == Pans(pas)
                     data == PandasToDataset(pans, locals.encoded_X, locals.encoded_y)
                 IN  /\ locals' = [locals EXCEPT !.pans = pans, !.encoded_data = data]
                     /\ log' = Append(log,
                           Entry("_PandasToDatasetConverter", 0,
                                 [favorable_label |-> data.favorable_label,
                                  unfavorable_label |-> data.unfavorable_label,
                                  protected_attribute_names |-> pans,
                                  X |-> locals.encoded_X, y |-> locals.encoded_y],
                                 data))
              /\ Advance("convert")
    /\ UNCHANGED <<fields, ctor, heap, lastFit, fitsLeft>>

\* lines 53-57
MakeRw ==
    /\ call.pc = "make_rw"
    /\ \/ Throw(ExternalError("Reweighing"))
       \/ /\ LET unpriv == UnprivGroups(Me.protected_attributes)
                 priv == PrivGroups(Me.protected_attributes)
                 rw == MakeReweighing(unpriv, priv)
             IN  /\ locals' = [locals EXCEPT !.unpriv_groups = unpriv,
                                             !.priv_groups = priv,
                                             !.reweighing_trainable = rw]
                 /\ log' = Append(log,
                       Entry("Reweighing", 0,
                             [unprivileged_groups |-> unpriv,
                              privileged_groups |-> priv], rw))
          /\ Advance("make_rw")
    /\ UNCHANGED <<fields, ctor, heap, lastFit, fitsLeft>>

\* line 58
RwFit ==
    /\ call.pc = "rw_fit"
    /\ \/ Throw(ExternalError("Reweighing.fit"))
       \/ /\ LET rw == ReweighingFit(locals.reweighing_trainable, locals.encoded_data)
             IN  /\ locals' = [locals EXCEPT !.reweighing_trained = rw]
                 /\ log' = Append(log,
                       Entry("Reweighing.fit", 0,
                             [rw |-> locals.reweighing_trainable,
                              data |-> locals.encoded_data], rw))
          /\ Advance("rw_fit")
    /\ UNCHANGED <<fields, ctor, heap, lastFit, fitsLeft>>

\* line 59
RwTransform ==
    /\ call.pc = "rw_transform"
    /\ \/ Throw(ExternalError("Reweighing.transform"))
       \/ /\ LET out == ReweighingTransform(locals.reweighing_trained,
                                            locals.encoded_data)
             IN  /\ locals' = [locals EXCEPT !.reweighted_data = out]
                 /\ log' = Append(log,
                       Entry("Reweighing.transform", 0,
                             [rw |-> locals.reweighing_trained,
                              data |-> locals.encoded_data], out))
          /\ Advance("rw_transform")
    /\ UNCHANGED <<fields, ctor, heap, lastFit, fitsLeft>>

\* line 60
Weights ==
    /\ call.pc = "weights"
    /\ locals' = [locals EXCEPT
                    !.sample_weight = locals.reweighted_data.instance_weights]
    /\ log' = Append(log,
          Entry("instance_weights", 0, [data |-> locals.reweighted_data],
                locals.reweighted_data.instance_weights))
    /\ Advance("weights")
    /\ UNCHANGED <<fields, ctor, heap, lastFit, fitsLeft>>

\* lines 70-71
EstimatorFit ==
    /\ call.pc = "est_fit"
    /\ \/ Throw(ExternalError("estimator.fit")) /\ UNCHANGED <<fields, heap>>
       \/ \E mode \in FitModes :
            LET r == Me.estimator
                out == ExtFit(heap, r, mode)
            IN  /\ heap' = out.heap
                /\ fields' = SetEstimator(fields, Self, out.result)
                /\ log' = Append(log,
                      Entry("estimator.fit", r,
                            EstimatorFitArgs(call, locals),
                            out.result))
                /\ UNCHANGED locals
                /\ Advance("est_fit")
    /\ UNCHANGED <<ctor, lastFit, fitsLeft>>

\* lines 62-63
Split ==
    /\ call.pc = "split"
    /\ \/ Throw(ExternalError("remove_last"))
       \/ Throw(ExternalError("get_last"))
       \/ /\ LET r == Me.estimator
             IN  /\ locals' = [locals EXCEPT !.trainable_prefix = heap[r].prefix,
                                             !.trainable_suffix = heap[r].last]
                 /\ log' = log \o
                       <<Entry("remove_last", r, [none |-> TRUE], heap[r].prefix),
                         Entry("get_last", r, [none |-> TRUE], heap[r].last)>>
          /\ Advance("split")
    /\ UNCHANGED <<fields, ctor, heap, lastFit, fitsLeft>>

\* line 64
PrefixFit ==
    /\ call.pc = "prefix_fit"
    /\ \/ Throw(ExternalError("prefix.fit")) /\ UNCHANGED heap
       \/ \E mode \in FitModes :
            LET r == locals.trainable_prefix
                out == ExtFit(heap, r, mode)
            IN  /\ heap' = out.heap
                /\ locals' = [locals EXCEPT !.trained_prefix = out.result]
                /\ log' = Append(log,
                      Entry("prefix.fit", r,
                            PrefixFitArgs(call, locals),
                            out.result))
                /\ Advance("prefix_fit")
    /\ UNCHANGED <<fields, ctor, lastFit, fitsLeft>>

\* line 65
PrefixTransform ==
    /\ call.pc = "prefix_transform"
    /\ \/ Throw(ExternalError("prefix.transform"))
       \/ /\ LET out == ExtTransform(locals.trained_prefix, call.X)
             IN  /\ locals' = [locals EXCEPT !.transformed_X = out]
                 /\ log' = Append(log,
                       Entry("prefix.transform", locals.trained_prefix,
                             [X |-> call.X], out))
          /\ Advance("prefix_transform")
    /\ UNCHANGED <<fields, ctor, heap, lastFit, fitsLeft>>

\* lines 66-68
SuffixFit ==
    /\ call.pc = "suffix_fit"
    /\ \/ Throw(ExternalError("suffix.fit")) /\ UNCHANGED heap
       \/ \E mode \in FitModes :
            LET r == locals.trainable_suffix
                out == ExtFit(heap, r, mode)
            IN  /\ heap' = out.heap
                /\ locals' = [locals EXCEPT !.trained_suffix = out.result]
                /\ log' = Append(log,
                      Entry("suffix.fit", r,
                            SuffixFitArgs(call, locals),
                            out.result))
                /\ Advance("suffix_fit")
    /\ UNCHANGED <<fields, ctor, lastFit, fitsLeft>>

\* line 69
Compose ==
    /\ call.pc = "compose"
    /\ \/ Throw(ExternalError(">>")) /\ UNCHANGED <<fields, heap>>
       \/ LET n == Alloc(heap)
          IN  /\ heap' = [heap EXCEPT ![n] =
                            [kind |-> "pipeline", st |-> 0,
                             prefix |-> locals.trained_prefix,
                             last |-> locals.trained_suffix]]
              /\ fields' = SetEstimator(fields, Self, n)
              /\ log' = Append(log,
                    Entry(">>", 0,
                          [prefix |-> locals.trained_prefix,
                           last |-> locals.trained_suffix], n))
              /\ UNCHANGED locals
              /\ Advance("compose")
    /\ UNCHANGED <<ctor, lastFit, fitsLeft>>

\* line 72
Return ==
    /\ call.pc = "return"
    /\ outcome' = [status |-> "returned", fn |-> "fit", self |-> Self,
                   value |-> Self]
    /\ call' = [call EXCEPT !.pc = "done"]
    /\ lastFit' = [lastFit EXCEPT ![Self] = log[Len(log)].result]
    /\ UNCHANGED <<fields, ctor, heap, locals, log, fitsLeft>>

\* --------------------------------------------------- predict (lines 74-76)

\* (predict on the estimator the constructor was given)
PredictReceiverCtor(f, c, self) == c[self].estimator

\* The estimator predict reads.
PredictReceiver(f, c, self) == f[self].estimator

PredictCall(a, X) ==
    /\ Idle
    /\ LET r == PredictReceiver(fields, ctor, a)
           c == [fn |-> "predict", self |-> a, X |-> X, y |-> NullY, pc |-> "done",
                 pre |-> fields, preheap |-> heap]
       IN  \/ /\ outcome' = [status |-> "raised", fn |-> "predict", self |-> a,
                             error |-> ExternalError("estimator.predict")]
              /\ log' = <<>>
              /\ call' = c
           \/ /\ outcome' = [status |-> "returned", fn |-> "predict", self |-> a,
                             value |-> ExtPredict(heap, r, X)]
              /\ log' = <<Entry("estimator.predict", r, [X |-> X],
                                ExtPredict(heap, r, X))>>
              /\ call' = c
    /\ locals' = NullLocals
    /\ UNCHANGED <<fields, ctor, heap, lastFit, fitsLeft>>

\* ------------------------------------------------------------ behaviours

Ys ==
    {[kind |-> k, labels |-> l] : k \in {"ndarray", "series"}, l \in LabelSeqs}
        \cup {[kind |-> "list", labels |-> <<1, 0>>]}

YsFew ==
    {[kind |-> "ndarray", labels |-> <<1, 0>>],
     [kind |-> "series", labels |-> <<2, 1>>],
     [kind |-> "list", labels |-> <<1, 0>>]}

Step ==
    \/ Encode
    \/ Binarize
    \/ Convert
    \/ MakeRw
    \/ RwFit
    \/ RwTransform
    \/ Weights
    \/ EstimatorFit
    \/ Split
    \/ PrefixFit
    \/ PrefixTransform
    \/ SuffixFit
    \/ Compose
    \/ Return

Next ==
    \/ \E a \in Adapters, X \in Xs, y \in YsFew : FitCall(a, X, y)
    \/ \E a \in Adapters, X \in Xs : PredictCall(a, X)
    \/ Step

Spec == Init /\ [][Next]_vars

NextData ==
    \/ \E a \in Adapters, X \in Xs, y \in Ys : FitCall(a, X, y)
    \/ \E a \in Adapters, X \in Xs : PredictCall(a, X)
    \/ Step

SpecData == InitData /\ [][NextData]_vars

\* ------------------------------------------------- reading the call log

Fns(l) == [i \in 1..Len(l) |-> l[i].fn]

IsPrefix(s, t) == Len(s) <= Len(t) /\ \A i \in 1..Len(s) : s[i] = t[i]

Has(fn) == \E i \in 1..Len(log) : log[i].fn = fn

Count(fn) == Cardinality({i \in 1..Len(log) : log[i].fn = fn})

EntryOf(fn) == log[CHOOSE i \in 1..Len(log) : log[i].fn = fn]

FitFns == {"estimator.fit", "prefix.fit", "suffix.fit"}

\* Whether the estimator was a pipeline when the call started.
WasPipeline == IsTrainablePipeline(call.preheap, call.pre[Self].estimator)

FitReturned == outcome.status = "returned" /\ outcome.fn = "fit"

FitRaised == outcome.status = "raised" /\ outcome.fn = "fit"

\* The delegated calls of a fit, in the order of its statements.
FitOrder ==
    <<"ProtectedAttributesEncoder.transform">>
        \o (IF call.y.kind = "ndarray" THEN <<"_ndarray_to_series">> ELSE <<>>)
        \o <<"Series.apply", "_PandasToDatasetConverter", "Reweighing",
             "Reweighing.fit", "Reweighing.transform", "instance_weights">>
        \o (IF WasPipeline
            THEN <<"remove_last", "get_last", "prefix.fit", "prefix.transform",
                   "suffix.fit", ">>">>
            ELSE <<"estimator.fit">>)

\* C1: a fit makes its delegated calls in the one order of FitOrder, each once
\* (a fit in progress or failed has made a prefix of them, a completed fit all
\* of them); Reweighing.fit and Reweighing.transform get the dataset the
\* converter returned; no estimator, prefix or last-stage fit precedes the
\* reading of instance_weights.
C1_FixedOrder ==
    call.fn = "fit" =>
        /\ IsPrefix(Fns(log), FitOrder)
        /\ FitReturned => Fns(log) = FitOrder
        /\ \A i \in 1..Len(log) :
              log[i].fn \in {"Reweighing.fit", "Reweighing.transform"} =>
                  log[i].args.data = EntryOf("_PandasToDatasetConverter").result
        /\ \A i \in 1..Len(log) :
              log[i].fn \in FitFns =>
                  \E j \in 1..(i - 1) : log[j].fn = "instance_weights"

C1_Witness ==
    /\ FitReturned
    /\ WasPipeline
    /\ call.y.kind = "ndarray"
    /\ Count("suffix.fit") = 1

\* C2: a completed fit on an estimator that is no pipeline has made exactly one
\* fit call, estimator.fit on the estimator held at the start, with the
\* caller's X and y and with the instance_weights of the dataset that
\* Reweighing.transform returned; self.estimator is what that call returned.
C2_PlainEstimatorFit ==
    (FitReturned /\ ~WasPipeline) =>
        /\ Cardinality({i \in 1..Len(log) : log[i].fn \in FitFns}) = 1
        /\ Count("estimator.fit") = 1
        /\ LET e == EntryOf("estimator.fit")
           IN  /\ e.recv = call.pre[Self].estimator
               /\ e.args.X = call.X
               /\ e.args.y = call.y
               /\ e.args.sample_weight =
                      EntryOf("Reweighing.transform").result.instance_weights
               /\ e.args.sample_weight.present
               /\ Me.estimator = e.result

C2_Witness ==
    /\ FitReturned
    /\ ~WasPipeline
    /\ Count("estimator.fit") = 1
    /\ call.y.kind = "series"

\* C3: a completed fit on a pipeline has fit the pipeline without its last
\* stage on the caller's X and y with no sample weight, then transformed X
\* with the trained prefix, then fit the last stage on the transformed X, the
\* caller's y and the instance weights; self.estimator is the composition of
\* the trained prefix and the trained last stage.
C3_PipelineFit ==
    (FitReturned /\ WasPipeline) =>
        /\ Cardinality({i \in 1..Len(log) : log[i].fn \in FitFns}) = 2
        /\ LET k == Len(log) - 6
               rl == log[k + 1]
               gl == log[k + 2]
               pf == log[k + 3]
               pt == log[k + 4]
               sf == log[k + 5]
               co == log[k + 6]
               w == EntryOf("Reweighing.transform").result.instance_weights
           IN  /\ <<rl.fn, gl.fn, pf.fn, pt.fn, sf.fn, co.fn>> =
                     <<"remove_last", "get_last", "prefix.fit", "prefix.transform",
                       "suffix.fit", ">>">>
               /\ rl.recv = call.pre[Self].estimator
               /\ gl.recv = call.pre[Self].estimator
               /\ pf.recv = rl.result
               /\ pf.args = [X |-> call.X, y |-> call.y, sample_weight |-> NoWeight]
               /\ pt.recv = pf.result
               /\ pt.args.X = call.X
               /\ sf.recv = gl.result
               /\ sf.args = [X |-> pt.result, y |-> call.y, sample_weight |-> w]
               /\ w.present
               /\ co.args = [prefix |-> pf.result, last |-> sf.result]
               /\ Me.estimator = co.result
               /\ heap[Me.estimator].prefix = pf.result
               /\ heap[Me.estimator].last = sf.result

C3_Witness ==
    /\ FitReturned
    /\ WasPipeline
    /\ Has(">>")
    /\ heap[Me.estimator].kind = "pipeline"
    /\ Me.estimator # call.pre[Self].estimator

\* C4: a call that raises raises the error of one of its delegated calls; no
\* statement of the adapter raises an error of its own.
C4_OnlyDelegatedErrors ==
    outcome.status = "raised" => outcome.error.origin = "external"

\* What B.predict answers, for every table.
PredictOf(h, f, a) == View(h, f[a].estimator)

\* C5: a step of a call on A changes neither the fields of B nor what
\* B.predict returns, whichever estimator objects A and B were built on.
C5_Isolation ==
    [][call'.self = "A" =>
          /\ fields'["B"] = fields["B"]
          /\ PredictOf(heap', fields', "B") = PredictOf(heap, fields, "B")]_vars

\* C5 as amended: a step of a call on A never changes the fields of B, and it
\* does not change what B.predict returns when the estimators of A and B have
\* no estimator object in common.
C5_IsolationUnshared ==
    [][call'.self = "A" =>
          /\ fields'["B"] = fields["B"]
          /\ (Parts(heap, fields["A"].estimator)
                  \cap Parts(heap, fields["B"].estimator) = {})
                => PredictOf(heap', fields', "B") = PredictOf(heap, fields, "B")]_vars

C5_Witness ==
    /\ FitReturned
    /\ Self = "A"
    /\ Parts(call.preheap, call.pre["A"].estimator)
          \cap Parts(call.preheap, call.pre["B"].estimator) = {}
    /\ heap # call.preheap
    /\ fields["A"].estimator = call.pre["A"].estimator
    /\ PredictOf(heap, fields, "A") # PredictOf(call.preheap, call.pre, "A")
    /\ PredictOf(heap, fields, "B") = PredictOf(call.preheap, call.pre, "B")

\* The estimator an adapter holds between calls.
Expected(a) == IF lastFit[a] = 0 THEN ctor[a].estimator ELSE lastFit[a]

\* C8: predict returns what predict of the estimator now in self.estimator
\* returns; that estimator is the product of the adapter's most recent
\* completed fit, or the constructor's estimator when no fit has completed; a
\* completed fit returns the adapter; a fit works on the estimator that the
\* previous fit left in self.estimator.
C8_PredictUsesLastFit ==
    /\ (outcome.status = "returned" /\ outcome.fn = "predict") =>
          /\ outcome.value = ExtPredict(heap, Me.estimator, call.X)
          /\ log[1].recv = Me.estimator
    /\ FitReturned => outcome.value = Self
    /\ \A a \in Adapters :
          (a = Self /\ call.pc = "return") \/ fields[a].estimator = Expected(a)
    /\ (call.fn = "fit" /\ ~FitReturned) =>
          \A i \in 1..Len(log) :
              log[i].fn \in {"estimator.fit", "remove_last", "get_last"} =>
                  log[i].recv = Expected(Self)

C8_Witness ==
    /\ outcome.status = "returned"
    /\ outcome.fn = "predict"
    /\ fitsLeft = 0
    /\ lastFit[Self] # 0
    /\ Me.estimator # ctor[Self].estimator
    /\ outcome.value.view.st = 2

C10_ParamsKept ==
    /\ \A a \in Adapters :
          /\ fields[a].favorable_labels = ctor[a].favorable_labels
          /\ fields[a].protected_attributes = ctor[a].protected_attributes
    /\ call.fn = "predict" => fields = call.pre

C10_Witness ==
    /\ outcome.status = "returned"
    /\ outcome.fn = "predict"
    /\ \A a \in Adapters : fields[a].estimator # ctor[a].estimator

Range(q) == {q[i] : i \in 1..Len(q)}

\* C6: Reweighing is configured with one privileged group, mapping every
\* configured feature name to 1, and one unprivileged group, mapping every one
\* of them to 0; the keys of both are the names given to the dataset converter,
\* which has one name per element of self.protected_attributes, in its order.
C6_Groups ==
    (call.fn = "fit" /\ Has("Reweighing")) =>
        LET a == EntryOf("Reweighing").args
            pans == EntryOf("_PandasToDatasetConverter").args.protected_attribute_names
            pas == Me.protected_attributes
        IN  /\ Len(a.privileged_groups) = 1
            /\ Len(a.unprivileged_groups) = 1
            /\ DOMAIN a.privileged_groups[1] = Range(pans)
            /\ DOMAIN a.unprivileged_groups[1] = Range(pans)
            /\ \A f \in Range(pans) :
                  /\ a.privileged_groups[1][f] = 1
                  /\ a.unprivileged_groups[1][f] = 0
            /\ Len(pans) = Len(pas)
            /\ \A i \in 1..Len(pas) : pans[i] = pas[i].feature

C6_Witness ==
    /\ call.fn = "fit"
    /\ Has("Reweighing.fit")
    /\ EntryOf("_PandasToDatasetConverter").args.protected_attribute_names
          = <<"f1", "f1">>
    /\ DOMAIN EntryOf("Reweighing").args.privileged_groups[1] = {"f1"}
    /\ EntryOf("Reweighing.fit").args.rw.privileged_groups[1]["f1"] = 1
    /\ EntryOf("Reweighing.fit").args.rw.unprivileged_groups[1]["f1"] = 0

\* C7: the labels given to the dataset converter are the labels of y, one for
\* one and in order, each replaced by its _group_flag against
\* self.favorable_labels, which is the converter's favorable_label 1 or its
\* unfavorable_label 0; an ndarray y goes through _ndarray_to_series first and
\* any other y is used as given; the sample weights come from these labels,
\* while every estimator fit is given the caller's y.
C7_Binarized ==
    call.fn = "fit" =>
        /\ Has("Series.apply") =>
              LET e == EntryOf("Series.apply")
              IN  /\ Len(e.result.labels) = Len(call.y.labels)
                  /\ \A i \in 1..Len(call.y.labels) :
                        /\ e.result.labels[i] =
                              _group_flag(call.y.labels[i], Me.favorable_labels)
                        /\ e.result.labels[i] \in {0, 1}
                  /\ e.args.y.labels = call.y.labels
                  /\ (call.y.kind = "ndarray") <=> Has("_ndarray_to_series")
                  /\ call.y.kind = "ndarray" =>
                        /\ EntryOf("_ndarray_to_series").args.y = call.y
                        /\ e.args.y = EntryOf("_ndarray_to_series").result
                  /\ call.y.kind # "ndarray" => e.args.y = call.y
        /\ Has("_PandasToDatasetConverter") =>
              LET c == EntryOf("_PandasToDatasetConverter")
              IN  /\ c.args.favorable_label = 1
                  /\ c.args.unfavorable_label = 0
                  /\ c.args.y = EntryOf("Series.apply").result
        /\ \A i \in 1..Len(log) :
              /\ log[i].fn = "Reweighing.fit" =>
                    log[i].args.data.y = EntryOf("Series.apply").result
              /\ log[i].fn \in FitFns => log[i].args.y = call.y

C7_Witness ==
    /\ FitReturned
    /\ call.y = [kind |-> "ndarray", labels |-> <<2, 0>>]
    /\ Me.favorable_labels = <<1, 2>>
    /\ EntryOf("_PandasToDatasetConverter").args.y.labels = <<1, 0>>
    /\ EntryOf("estimator.fit").args.y.labels = <<2, 0>>

====
